---- MODULE Spec2Model ----
(***************************************************************************)
(* Model of src/src/main.rs: the falling-block game core (Piece, Board,    *)
(* Game) and the driver loop run_game that calls into it.                  *)
(*                                                                         *)
(* The playfield is scaled down: the source fixes BOARD_W = 10 and         *)
(* BOARD_H = 20; the model keeps every formula in terms of BOARD_W and     *)
(* BOARD_H and explores a smaller grid.                                    *)
(***************************************************************************)
EXTENDS Integers, Sequences, FiniteSets, TLC

\* ---- bounds of the model ------------------------------------------------
\* the grid explored (10 x 20 in the source)
BOARD_W == 4
BOARD_H == 5
\* a session takes no further command once this many lines were cleared
MaxLines == 1
\* the largest line count drop_interval_ms is called with on its own
MaxLinesInterval == 159
\* the same cap for the long sessions played with the bar piece alone
MaxLinesLong == 21

\* ---- program constants --------------------------------------------------
CELL_W == 4

ALL_PIECES == <<"I", "O", "T", "S", "Z", "J", "L">>

\* the kinds the random draws of a session range over: the first three of the
\* seven of ALL_PIECES (the source draws among all seven)
RngKinds == {ALL_PIECES[i] : i \in 1..3}

\* the draws of a long session
LongKinds == {ALL_PIECES[1]}

None == "None"

\* PieceKind::color
PieceKind_color(kind) ==
    CASE kind = "I" -> "Cyan"
      [] kind = "O" -> "Yellow"
      [] kind = "T" -> "Magenta"
      [] kind = "S" -> "Green"
      [] kind = "Z" -> "Red"
      [] kind = "J" -> "Blue"
      [] kind = "L" -> "DarkYellow"

\* PieceKind::cells
PieceKind_cells(kind) ==
    CASE kind = "I" -> << <<0, 1>>, <<1, 1>>, <<2, 1>>, <<3, 1>> >>
      [] kind = "O" -> << <<1, 0>>, <<2, 0>>, <<1, 1>>, <<2, 1>> >>
      [] kind = "T" -> << <<0, 1>>, <<1, 1>>, <<2, 1>>, <<1, 0>> >>
      [] kind = "S" -> << <<0, 1>>, <<1, 1>>, <<1, 0>>, <<2, 0>> >>
      [] kind = "Z" -> << <<0, 0>>, <<1, 0>>, <<1, 1>>, <<2, 1>> >>
      [] kind = "J" -> << <<0, 0>>, <<0, 1>>, <<1, 1>>, <<2, 1>> >>
      [] kind = "L" -> << <<2, 0>>, <<0, 1>>, <<1, 1>>, <<2, 1>> >>

\* ---- Piece --------------------------------------------------------------

\* Piece::new
Piece_new(kind) ==
    [kind |-> kind, cells |-> PieceKind_cells(kind),
     x |-> (BOARD_W - CELL_W) \div 2, y |-> -1]

\* the cell offsets translated by (px, py)
Translate(cells, px, py) ==
    [i \in 1..Len(cells) |-> <<px + cells[i][1], py + cells[i][2]>>]

\* Piece::absolute_cells
absolute_cells(p) == Translate(p.cells, p.x, p.y)

\* rotated_cw without the early return for the square: it is turned in the
\* three-wide frame like the other kinds
rotated_cw_every_kind(p) ==
    LET size == IF p.kind = "I" THEN 4 ELSE 3
    IN [i \in 1..Len(p.cells) |-> <<size - 1 - p.cells[i][2], p.cells[i][1]>>]

\* rotated_cw turning counter-clockwise: (c, r) -> (r, size - 1 - c)
rotated_cw_counter(p) ==
    IF p.kind = "O" THEN p.cells
    ELSE LET size == IF p.kind = "I" THEN 4 ELSE 3
         IN [i \in 1..Len(p.cells) |-> <<p.cells[i][2], size - 1 - p.cells[i][1]>>]

\* Piece::rotated_cw
rotated_cw(p) ==
    IF p.kind = "O" THEN p.cells
    ELSE LET size == IF p.kind = "I" THEN 4 ELSE 3
         IN [i \in 1..Len(p.cells) |-> <<size - 1 - p.cells[i][2], p.cells[i][1]>>]

\* ---- Board --------------------------------------------------------------

Cols == 0..(BOARD_W - 1)
Rows == 0..(BOARD_H - 1)

EmptyRow == [x \in Cols |-> None]

\* Board::new
Board_new == [y \in Rows |-> EmptyRow]

\* Board::is_free
is_free(grid, x, y) ==
    IF x < 0 \/ x >= BOARD_W THEN FALSE
    ELSE IF y >= BOARD_H THEN FALSE
    ELSE IF y < 0 THEN TRUE
    ELSE grid[y][x] = None

\* Board::fits
fits(grid, cells) == \A i \in 1..Len(cells) : is_free(grid, cells[i][1], cells[i][2])

\* Board::lock: the cells are written one after the other, in order
RECURSIVE LockFrom(_, _, _, _)
LockFrom(grid, cells, color, i) ==
    IF i > Len(cells) THEN grid
    ELSE LET x == cells[i][1]
             y == cells[i][2]
             g == IF y >= 0 /\ y < BOARD_H /\ x >= 0 /\ x < BOARD_W
                  THEN [grid EXCEPT ![y][x] = color]
                  ELSE grid
         IN LockFrom(g, cells, color, i + 1)

lock(grid, cells, color) == LockFrom(grid, cells, color, 1)

\* RowFull with `any` in place of `all`
RowFull_Any(row) == \E x \in Cols : row[x] # None

\* the test of clear_lines' first loop
RowFull(row) == \A x \in Cols : row[x] # None

\* first loop of Board::clear_lines, rows y..BOARD_H-1: the counter and the kept rows
RECURSIVE ScanRows(_, _, _, _)
ScanRows(grid, y, cleared, kept) ==
    IF y >= BOARD_H THEN [cleared |-> cleared, kept |-> kept]
    ELSE IF RowFull(grid[y])
         THEN ScanRows(grid, y + 1, cleared + 1, kept)
         ELSE ScanRows(grid, y + 1, cleared, Append(kept, grid[y]))

\* clear_lines putting the kept rows at the top and the empty rows below them
clear_lines_keep_top(grid) ==
    LET s == ScanRows(grid, 0, 0, <<>>)
    IN [grid |-> [y \in Rows |-> IF y < Len(s.kept) THEN s.kept[y + 1] ELSE EmptyRow],
        cleared |-> s.cleared]

\* clear_lines emptying the full rows where they are, without compaction
clear_lines_in_place(grid) ==
    [grid |-> [y \in Rows |-> IF RowFull(grid[y]) THEN EmptyRow ELSE grid[y]],
     cleared |-> ScanRows(grid, 0, 0, <<>>).cleared]

\* Board::clear_lines: the new grid and the returned count
clear_lines(grid) ==
    LET s == ScanRows(grid, 0, 0, <<>>)
        empty_count == BOARD_H - Len(s.kept)
    IN [grid |-> [y \in Rows |-> IF y < empty_count THEN EmptyRow
                                 ELSE s.kept[y - empty_count + 1]],
        cleared |-> s.cleared]

\* ---- Game ---------------------------------------------------------------

\* the seven fields of Game held by run_game, the position of the driver (pc),
\* what the last step did (last), and the modes of the terminal (term)
VARIABLES board, current, next, score, lines, level, game_over, pc, last, term

vars == <<board, current, next, score, lines, level, game_over, pc, last, term>>

\* the terminal as the process finds it: cooked input, main screen
TermPlain == [raw |-> FALSE, alt |-> FALSE]

\* the terminal as main hands it to run_game: raw input, alternate screen
TermGame == [raw |-> TRUE, alt |-> TRUE]

\* the Game value held by run_game
Game ==
    [board |-> board, current |-> current, next |-> next, score |-> score,
     lines |-> lines, level |-> level, game_over |-> game_over]

\* Game::new with the two random draws
Game_new(kind, nxt) ==
    [board |-> Board_new, current |-> Piece_new(kind), next |-> nxt,
     score |-> 0, lines |-> 0, level |-> 1, game_over |-> FALSE]

\* spawn_next without the blocked-spawn test
spawn_next_no_game_over(g, rnd) ==
    [g EXCEPT !.current = Piece_new(g.next), !.next = rnd]

\* Game::spawn_next with its random draw
spawn_next(g, rnd) ==
    LET cur == Piece_new(g.next)
    IN [g EXCEPT !.current = cur,
                 !.next = rnd,
                 !.game_over = IF ~fits(g.board, absolute_cells(cur)) THEN TRUE ELSE @]

\* the candidate piece of Game::try_move
Moved(p, dx, dy) == [p EXCEPT !.x = @ + dx, !.y = @ + dy]

\* Game::try_move: the return value
try_move_ret(g, dx, dy) == fits(g.board, absolute_cells(Moved(g.current, dx, dy)))

\* try_move committing the candidate without the fits test
try_move_unchecked(g, dx, dy) == [g EXCEPT !.current = Moved(g.current, dx, dy)]

\* try_move writing the piece into the grid when the move is refused
try_move_and_lock(g, dx, dy) ==
    IF try_move_ret(g, dx, dy) THEN [g EXCEPT !.current = Moved(g.current, dx, dy)]
    ELSE [g EXCEPT !.board = lock(g.board, absolute_cells(g.current),
                                  PieceKind_color(g.current.kind))]

\* Game::try_move: the game afterwards
try_move(g, dx, dy) ==
    IF try_move_ret(g, dx, dy) THEN [g EXCEPT !.current = Moved(g.current, dx, dy)]
    ELSE g

\* the kick candidates with the kick to the right tried before the kick to the left
Kicks_RightFirst(kind) ==
    IF kind = "I"
    THEN << <<0, 0>>, <<1, 0>>, <<-1, 0>>, <<2, 0>>, <<-2, 0>>, <<0, -1>>, <<0, -2>> >>
    ELSE << <<0, 0>>, <<1, 0>>, <<-1, 0>>, <<0, -1>>, <<1, -1>>, <<-1, -1>> >>

\* the kick candidates of Game::try_rotate
Kicks(kind) ==
    IF kind = "I"
    THEN << <<0, 0>>, <<-1, 0>>, <<1, 0>>, <<-2, 0>>, <<2, 0>>, <<0, -1>>, <<0, -2>> >>
    ELSE << <<0, 0>>, <<-1, 0>>, <<1, 0>>, <<0, -1>>, <<-1, -1>>, <<1, -1>> >>

\* the loop of Game::try_rotate from kick i on: the index of the first kick that fits, 0 if none
RECURSIVE FirstKick(_, _, _, _)
FirstKick(g, rotated_cells, kicks, i) ==
    IF i > Len(kicks) THEN 0
    ELSE IF fits(g.board, Translate(rotated_cells,
                                    g.current.x + kicks[i][1], g.current.y + kicks[i][2]))
         THEN i
         ELSE FirstKick(g, rotated_cells, kicks, i + 1)

\* Game::try_rotate: the number of the kick it commits, 0 if it commits none
try_rotate_kick(g) ==
    IF g.current.kind = "O" THEN 0
    ELSE FirstKick(g, rotated_cw(g.current), Kicks(g.current.kind), 1)

\* Game::try_rotate: the return value
try_rotate_ret(g) ==
    IF g.current.kind = "O" THEN TRUE
    ELSE FirstKick(g, rotated_cw(g.current), Kicks(g.current.kind), 1) # 0

\* Game::try_rotate: the game afterwards
try_rotate(g) ==
    IF g.current.kind = "O" THEN g
    ELSE LET rotated_cells == rotated_cw(g.current)
             kicks == Kicks(g.current.kind)
             k == FirstKick(g, rotated_cells, kicks, 1)
         IN IF k = 0 THEN g
            ELSE [g EXCEPT !.current.cells = rotated_cells,
                           !.current.x = @ + kicks[k][1],
                           !.current.y = @ + kicks[k][2]]

\* the score table with the entries for 2 and 3 rows exchanged
Award_Swapped(cleared, lvl) ==
    CASE cleared = 1 -> 100 * lvl
      [] cleared = 2 -> 500 * lvl
      [] cleared = 3 -> 300 * lvl
      [] cleared = 4 -> 800 * lvl
      [] OTHER -> 0

\* the score table of Game::lock_and_advance
Award(cleared, lvl) ==
    CASE cleared = 1 -> 100 * lvl
      [] cleared = 2 -> 300 * lvl
      [] cleared = 3 -> 500 * lvl
      [] cleared = 4 -> 800 * lvl
      [] OTHER -> 0

\* lock_and_advance computing the level before the cleared rows are counted
LockAndScore_StaleLevel(g) ==
    LET c == clear_lines(lock(g.board, absolute_cells(g.current), PieceKind_color(g.current.kind)))
    IN IF c.cleared > 0
       THEN [g EXCEPT !.board = c.grid,
                      !.lines = g.lines + c.cleared,
                      !.score = g.score + Award(c.cleared, g.level),
                      !.level = g.lines \div 10 + 1]
       ELSE [g EXCEPT !.board = c.grid]

\* lock_and_advance assigning the award to the score instead of adding it
LockAndScore_Assign(g) ==
    LET c == clear_lines(lock(g.board, absolute_cells(g.current), PieceKind_color(g.current.kind)))
    IN IF c.cleared > 0
       THEN [g EXCEPT !.board = c.grid,
                      !.lines = g.lines + c.cleared,
                      !.score = Award(c.cleared, g.level),
                      !.level = (g.lines + c.cleared) \div 10 + 1]
       ELSE [g EXCEPT !.board = c.grid]

\* lock_and_advance without the call of clear_lines
LockAndScore_NoClear(g) ==
    [g EXCEPT !.board = lock(g.board, absolute_cells(g.current),
                             PieceKind_color(g.current.kind))]

\* Game::lock_and_advance up to the spawn: lock, clear_lines, score and level
LockAndScore(g) ==
    LET cells == absolute_cells(g.current)
        color == PieceKind_color(g.current.kind)
        c == clear_lines(lock(g.board, cells, color))
    IN IF c.cleared > 0
       THEN [g EXCEPT !.board = c.grid,
                      !.lines = g.lines + c.cleared,
                      !.score = g.score + Award(c.cleared, g.level),
                      !.level = (g.lines + c.cleared) \div 10 + 1]
       ELSE [g EXCEPT !.board = c.grid]

\* the value `cleared` of Game::lock_and_advance
ClearedBy(g) ==
    clear_lines(lock(g.board, absolute_cells(g.current), PieceKind_color(g.current.kind))).cleared

\* Game::lock_and_advance
lock_and_advance(g, rnd) == spawn_next(LockAndScore(g), rnd)

\* u64::saturating_sub
saturating_sub(a, b) == IF b > a THEN 0 ELSE a - b

\* u64 max
max(a, b) == IF a >= b THEN a ELSE b

\* drop_interval_ms taking the decrement once per level instead of once per
\* level above the first
drop_interval_ms_per_level(g) ==
    LET base == 1000
        min_interval == 50
    IN max(saturating_sub(base, g.level * 80), min_interval)

\* Game::drop_interval_ms; level >= 1, so level as u64 - 1 does not wrap, and
\* (level - 1) * 80 is below 2^64 for every u32 level
drop_interval_ms(g) ==
    LET base == 1000
        min_interval == 50
    IN max(saturating_sub(base, (g.level - 1) * 80), min_interval)

\* hard_drop moving the piece down once instead of until the move fails
DropOnce(g) == try_move(g, 0, 1)

\* the loop of Game::hard_drop: try_move(0, 1) until it fails
RECURSIVE DropAll(_)
DropAll(g) == IF try_move_ret(g, 0, 1) THEN DropAll(try_move(g, 0, 1)) ELSE g

\* hard_drop without its loop: the piece is locked where it is
hard_drop_in_place(g, rnd) == lock_and_advance(g, rnd)

\* Game::hard_drop
hard_drop(g, rnd) == lock_and_advance(DropAll(g), rnd)

\* the loop of Game::ghost_cells: the rows the ghost descends
RECURSIVE GhostFall(_, _)
GhostFall(g, ghost) ==
    IF fits(g.board, Translate(ghost.cells, ghost.x, ghost.y + 1))
    THEN GhostFall(g, [ghost EXCEPT !.y = @ + 1])
    ELSE ghost

\* Game::ghost_cells
ghost_cells(g) == absolute_cells(GhostFall(g, g.current))

\* ---- run_game -----------------------------------------------------------

SetGame(g) ==
    /\ board' = g.board
    /\ current' = g.current
    /\ next' = g.next
    /\ score' = g.score
    /\ lines' = g.lines
    /\ level' = g.level
    /\ game_over' = g.game_over

GameVars == <<board, current, next, score, lines, level, game_over>>

\* the fields of a Game value as the initial values of the variables
SetGameInit(g) ==
    /\ board = g.board
    /\ current = g.current
    /\ next = g.next
    /\ score = g.score
    /\ lines = g.lines
    /\ level = g.level
    /\ game_over = g.game_over

\* what the last step called: the command, the boolean a try_* call returned,
\* whether lock_and_advance ran, the rows it cleared, and (for a direct call of
\* clear_lines) the grid the call was made on
Did(op, ret, locked, cleared) ==
    [op |-> op, ret |-> ret, locked |-> locked, cleared |-> cleared, arg |-> <<>>]

\* run_game before its loop: Game::new
InitWith(kinds) ==
    \E kind \in kinds, nxt \in kinds :
        /\ board = Game_new(kind, nxt).board
        /\ current = Game_new(kind, nxt).current
        /\ next = Game_new(kind, nxt).next
        /\ score = Game_new(kind, nxt).score
        /\ lines = Game_new(kind, nxt).lines
        /\ level = Game_new(kind, nxt).level
        /\ game_over = Game_new(kind, nxt).game_over
        /\ pc = "top"
        /\ last = Did("new", TRUE, FALSE, 0)
        /\ term = TermGame

\* top of the loop: draw, which calls ghost_cells (the cells it returns are
\* recorded in last.arg), then the game_over test
Draw ==
    /\ pc = "top"
    /\ pc' = IF game_over THEN "over" ELSE "input"
    /\ last' = [Did("draw", TRUE, FALSE, 0) EXCEPT !.arg = ghost_cells(Game)]
    /\ UNCHANGED GameVars
    /\ UNCHANGED term

\* game-over loop, key r or R: a new game, then on to the input poll
Retry(kinds) ==
    /\ pc = "over"
    /\ \E kind \in kinds, nxt \in kinds : SetGame(Game_new(kind, nxt))
    /\ pc' = "input"
    /\ last' = Did("new", TRUE, FALSE, 0)
    /\ UNCHANGED term

\* game-over loop, key q, Q or Esc
QuitOver ==
    /\ pc = "over"
    /\ pc' = "done"
    /\ last' = Did("quit", TRUE, FALSE, 0)
    /\ UNCHANGED GameVars
    /\ UNCHANGED term

\* game-over loop: the poll timed out, or any other key
IgnoreOver ==
    /\ pc = "over"
    /\ last' = Did("ignore", TRUE, FALSE, 0)
    /\ UNCHANGED <<GameVars, pc>>
    /\ UNCHANGED term

\* input poll: timeout, an event that is no key press, or an unbound key
NoCommand ==
    /\ pc = "input"
    /\ pc' = "gravity"
    /\ last' = Did("none", TRUE, FALSE, 0)
    /\ UNCHANGED GameVars
    /\ UNCHANGED term

\* KeyCode::Left
KeyLeft(cap) ==
    /\ pc = "input"
    /\ lines < cap
    /\ SetGame(try_move(Game, -1, 0))
    /\ pc' = "gravity"
    /\ last' = Did("left", try_move_ret(Game, -1, 0), FALSE, 0)
    /\ UNCHANGED term

\* KeyCode::Right
KeyRight(cap) ==
    /\ pc = "input"
    /\ lines < cap
    /\ SetGame(try_move(Game, 1, 0))
    /\ pc' = "gravity"
    /\ last' = Did("right", try_move_ret(Game, 1, 0), FALSE, 0)
    /\ UNCHANGED term

\* the step locking the piece where it is without trying to move it down
StepDown_LockAtOnce(g, rnd) == lock_and_advance(g, rnd)

\* if !game.try_move(0, 1) { game.lock_and_advance(); }
StepDown(g, rnd) ==
    IF try_move_ret(g, 0, 1) THEN try_move(g, 0, 1) ELSE lock_and_advance(g, rnd)

\* KeyCode::Down
KeyDown(kinds, cap) ==
    /\ pc = "input"
    /\ lines < cap
    /\ \E rnd \in kinds : SetGame(StepDown(Game, rnd))
    /\ pc' = "gravity"
    /\ last' = IF try_move_ret(Game, 0, 1) THEN Did("down", TRUE, FALSE, 0)
               ELSE Did("down", FALSE, TRUE, ClearedBy(Game))
    /\ UNCHANGED term

\* KeyCode::Up, z or Z
KeyRotate(cap) ==
    /\ pc = "input"
    /\ lines < cap
    /\ SetGame(try_rotate(Game))
    /\ pc' = "gravity"
    /\ last' = Did("rotate", try_rotate_ret(Game), FALSE, 0)
    /\ UNCHANGED term

\* KeyCode::Char(' ')
KeySpace(kinds, cap) ==
    /\ pc = "input"
    /\ lines < cap
    /\ \E rnd \in kinds : SetGame(hard_drop(Game, rnd))
    /\ pc' = "gravity"
    /\ last' = Did("hard_drop", TRUE, TRUE, ClearedBy(DropAll(Game)))
    /\ UNCHANGED term

\* q, Q, Esc or ctrl-c
KeyQuit ==
    /\ pc = "input"
    /\ pc' = "done"
    /\ last' = Did("quit", TRUE, FALSE, 0)
    /\ UNCHANGED GameVars
    /\ UNCHANGED term

\* gravity, last_drop.elapsed() < interval. The elapsed time is read from the
\* monotonic clock: whether the step is due is the environment's choice, also
\* right after a command has set last_drop.
GravityNotDue ==
    /\ pc = "gravity"
    /\ pc' = "top"
    /\ last' = Did("wait", TRUE, FALSE, 0)
    /\ UNCHANGED GameVars
    /\ UNCHANGED term

\* gravity, last_drop.elapsed() >= interval
GravityDue(kinds, cap) ==
    /\ pc = "gravity"
    /\ lines < cap
    /\ \E rnd \in kinds : SetGame(StepDown(Game, rnd))
    /\ pc' = "top"
    /\ last' = IF try_move_ret(Game, 0, 1) THEN Did("gravity", TRUE, FALSE, 0)
               ELSE Did("gravity", FALSE, TRUE, ClearedBy(Game))
    /\ UNCHANGED term

\* a step of the game-over loop of run_game
OverStep(kinds) ==
    \/ Retry(kinds)
    \/ QuitOver
    \/ IgnoreOver

\* a step of the rest of run_game's loop
ActiveStep(kinds, cap) ==
    \/ Draw
    \/ NoCommand
    \/ KeyLeft(cap)
    \/ KeyRight(cap)
    \/ KeyDown(kinds, cap)
    \/ KeyRotate(cap)
    \/ KeySpace(kinds, cap)
    \/ KeyQuit
    \/ GravityNotDue
    \/ GravityDue(kinds, cap)

Init == InitWith(RngKinds)

Next == OverStep(RngKinds) \/ ActiveStep(RngKinds, MaxLines)

\* sessions over the kinds of RngKinds
Spec == Init /\ [][Next]_vars

InitLong == InitWith(LongKinds)

\* With the bar piece alone on a grid CELL_W wide no spawn is ever blocked
\* (LongNeverOver), so the game-over loop is never entered in these sessions.
NextLong == ActiveStep(LongKinds, MaxLinesLong)

\* long sessions with the bar piece alone: they reach level 3 and four-row clears
SpecLong == InitLong /\ [][NextLong]_vars

LongNeverOver == ~game_over

\* ---- Board::clear_lines called on its own, as the unit tests do --------------

\* the tags the test rows are filled with
TestTags == {PieceKind_color(ALL_PIECES[1]), PieceKind_color(ALL_PIECES[2])}

\* the rows the test boards are made of: empty, full with one tag, full with two
\* tags, and partly filled in three ways
TestRows ==
    {EmptyRow}
    \cup {[x \in Cols |-> a] : a \in TestTags}
    \cup {[x \in Cols |-> IF x = 0 THEN PieceKind_color(ALL_PIECES[1])
                            ELSE PieceKind_color(ALL_PIECES[2])]}
    \cup {[x \in Cols |-> IF x = 0 THEN PieceKind_color(ALL_PIECES[3]) ELSE None]}
    \cup {[x \in Cols |-> IF x = BOARD_W - 1 THEN None ELSE PieceKind_color(ALL_PIECES[1])]}

\* a board filled by hand, Game::new around it
InitClear ==
    /\ board \in [Rows -> TestRows]
    /\ current = Piece_new(ALL_PIECES[1])
    /\ next = ALL_PIECES[1]
    /\ score = 0
    /\ lines = 0
    /\ level = 1
    /\ game_over = FALSE
    /\ pc = "test"
    /\ last = Did("new", TRUE, FALSE, 0)
    /\ term = TermPlain

\* board.clear_lines()
ClearLinesCall ==
    /\ pc = "test"
    /\ board' = clear_lines(board).grid
    /\ last' = [Did("clear_lines", TRUE, FALSE, clear_lines(board).cleared)
                    EXCEPT !.arg = board]
    /\ UNCHANGED <<current, next, score, lines, level, game_over, pc>>
    /\ UNCHANGED term

NextClear == ClearLinesCall

SpecClear == InitClear /\ [][NextClear]_vars

\* ---- Game::lock_and_advance called on its own -----------------------------

\* the score of a session that has cleared n lines one at a time
RECURSIVE ScoreOfSingles(_)
ScoreOfSingles(n) ==
    IF n = 0 THEN 0 ELSE ScoreOfSingles(n - 1) + 100 * ((n - 1) \div 10 + 1)

\* the line counts the hand-built games start from: levels 1, 2 and 3
TestLines == {0, 9, 10, 19, 20}

\* the column the upright bar stands in: offset 2 of rotated_cw, at x = 0
HoleCol == Piece_new(ALL_PIECES[1]).x + 2

\* a grid whose bottom k rows are full but for column HoleCol
HoleBoard(k) ==
    [y \in Rows |-> IF y >= BOARD_H - k
                    THEN [x \in Cols |-> IF x = HoleCol THEN None
                                         ELSE PieceKind_color(ALL_PIECES[1])]
                    ELSE EmptyRow]

\* the bar, upright, resting on the floor in column HoleCol
UprightBar ==
    [Piece_new(ALL_PIECES[1]) EXCEPT !.cells = rotated_cw(Piece_new(ALL_PIECES[1])),
                                    !.y = BOARD_H - 4]

\* a game about to lock the upright bar into 0..4 rows that lack one cell,
\* after n lines cleared one at a time
InitLock ==
    \E k \in 0..4, n \in TestLines, nxt \in RngKinds :
        /\ board = HoleBoard(k)
        /\ current = UprightBar
        /\ next = nxt
        /\ score = ScoreOfSingles(n)
        /\ lines = n
        /\ level = n \div 10 + 1
        /\ game_over = FALSE
        /\ pc = "test"
        /\ last = Did("new", TRUE, FALSE, 0)
        /\ term = TermPlain

\* game.lock_and_advance()
LockAndAdvanceCall ==
    /\ pc = "test"
    /\ \E rnd \in RngKinds : SetGame(lock_and_advance(Game, rnd))
    /\ pc' = "tested"
    /\ last' = Did("lock_and_advance", TRUE, TRUE, ClearedBy(Game))
    /\ UNCHANGED term

InitScore == InitLong \/ InitLock

NextScore == NextLong \/ LockAndAdvanceCall

\* the long sessions, and lock_and_advance called once on each hand-built game
SpecScore == InitScore /\ [][NextScore]_vars

\* ---- Piece::rotated_cw, Game::try_move and Game::try_rotate called on their own ----

\* all seven kinds
AllKinds == {ALL_PIECES[i] : i \in 1..Len(ALL_PIECES)}

\* a grid with the single cell (cx, cy) occupied
OneCell(cx, cy) ==
    [y \in Rows |-> [x \in Cols |-> IF x = cx /\ y = cy
                                     THEN PieceKind_color(ALL_PIECES[1]) ELSE None]]

\* the grids the pieces are moved and rotated on: empty, one occupied cell,
\* and one or two bottom rows that lack a cell
RotateBoards ==
    {Board_new}
    \cup {OneCell(x, y) : x \in Cols, y \in Rows}
    \cup {HoleBoard(k) : k \in 1..2}

\* a game whose current piece, of any kind, sits in its base orientation at
\* any place where it fits
InitRotate ==
    \E kind \in AllKinds, b \in RotateBoards,
       px \in (-1)..(BOARD_W - 1), py \in (-1)..(BOARD_H - 1) :
        /\ fits(b, Translate(PieceKind_cells(kind), px, py))
        /\ board = b
        /\ current = [Piece_new(kind) EXCEPT !.x = px, !.y = py]
        /\ next = kind
        /\ score = 0
        /\ lines = 0
        /\ level = 1
        /\ game_over = FALSE
        /\ pc = "test"
        /\ last = Did("new", TRUE, FALSE, 0)
        /\ term = TermPlain

\* game.current.rotated_cw(): the returned offsets are recorded in last.arg
RotatedCwCall ==
    /\ pc = "test"
    /\ last' = [Did("rotated_cw", TRUE, FALSE, 0) EXCEPT !.arg = rotated_cw(current)]
    /\ UNCHANGED <<GameVars, pc, term>>

\* game.try_move(dx, dy) with one of the three steps the driver uses
TryMoveCall ==
    /\ pc = "test"
    /\ \E d \in {<<-1, 0>>, <<1, 0>>, <<0, 1>>} :
           /\ SetGame(try_move(Game, d[1], d[2]))
           /\ last' = Did("try_move", try_move_ret(Game, d[1], d[2]), FALSE, 0)
    /\ UNCHANGED <<pc, term>>

\* game.try_rotate(): the number of the committed kick is recorded in last.arg
TryRotateCall ==
    /\ pc = "test"
    /\ SetGame(try_rotate(Game))
    /\ last' = [Did("rotate", try_rotate_ret(Game), FALSE, 0)
                    EXCEPT !.arg = try_rotate_kick(Game)]
    /\ UNCHANGED <<pc, term>>

NextRotate == RotatedCwCall \/ TryMoveCall \/ TryRotateCall

\* pieces of all seven kinds moved and rotated on the hand-built grids
SpecRotate == InitRotate /\ [][NextRotate]_vars

\* ---- Game::drop_interval_ms called on its own -------------------------------

\* a game that has cleared n lines one at a time and stands on an empty grid
\* (its score is ScoreOfSingles(n), written in closed form)
InitInterval ==
    \E n \in 0..MaxLinesInterval :
        /\ board = Board_new
        /\ current = Piece_new(ALL_PIECES[1])
        /\ next = ALL_PIECES[1]
        /\ score = 100 * (n \div 10 + 1) * (5 * (n \div 10) + (n % 10))
        /\ lines = n
        /\ level = n \div 10 + 1
        /\ game_over = FALSE
        /\ pc = "test"
        /\ last = Did("new", TRUE, FALSE, 0)
        /\ term = TermPlain

\* game.drop_interval_ms(): the returned milliseconds are recorded in last.arg
DropIntervalCall ==
    /\ pc = "test"
    /\ pc' = "tested"
    /\ last' = [Did("drop_interval_ms", TRUE, FALSE, 0)
                    EXCEPT !.arg = drop_interval_ms(Game)]
    /\ UNCHANGED <<GameVars, term>>

NextInterval == DropIntervalCall

SpecInterval == InitInterval /\ [][NextInterval]_vars

\* ---- main: terminal setup, run_game, terminal restoration ---------------------

\* main before its first statement; the game fields already hold what
\* Game::new will draw when run_game starts
InitMain ==
    \E kind \in RngKinds, nxt \in RngKinds :
        /\ SetGameInit(Game_new(kind, nxt))
        /\ pc = "main"
        /\ last = Did("start", TRUE, FALSE, 0)
        /\ term = TermPlain

\* terminal::enable_raw_mode()?: on Err main returns at once
EnableRawMode ==
    /\ pc = "main"
    /\ \E ok \in BOOLEAN :
           /\ term' = IF ok THEN [term EXCEPT !.raw = TRUE] ELSE term
           /\ pc' = IF ok THEN "setup" ELSE "exit"
           /\ last' = Did("enable_raw_mode", ok, FALSE, 0)
    /\ UNCHANGED GameVars

\* execute!(stdout, EnterAlternateScreen, Hide, Clear)?: on Err main returns
\* at once, the escape sequence having reached the terminal or not; on Ok
\* run_game is called
EnterAlternateScreen ==
    /\ pc = "setup"
    /\ \E ok \in BOOLEAN, alt \in BOOLEAN :
           /\ ok => alt
           /\ term' = [term EXCEPT !.alt = alt]
           /\ pc' = IF ok THEN "top" ELSE "exit"
           /\ last' = Did("enter", ok, FALSE, 0)
    /\ UNCHANGED GameVars

\* run_game: an Err from draw, draw_game_over, queue!, event::poll or
\* event::read is returned with `?`
IoError ==
    /\ pc \in {"top", "over", "input"}
    /\ pc' = "failed"
    /\ last' = Did("io_error", FALSE, FALSE, 0)
    /\ UNCHANGED <<GameVars, term>>

\* run_game has returned, Ok or Err:
\* execute!(stdout, Show, LeaveAlternateScreen)?: on Err main returns at once
LeaveAlternateScreen ==
    /\ pc \in {"done", "failed"}
    /\ \E ok \in BOOLEAN, alt \in BOOLEAN :
           /\ ok => ~alt
           /\ term' = [term EXCEPT !.alt = alt]
           /\ pc' = IF ok THEN "disable" ELSE "exit"
           /\ last' = Did("leave", ok, FALSE, 0)
    /\ UNCHANGED GameVars

\* terminal::disable_raw_mode()?, then main returns
DisableRawMode ==
    /\ pc = "disable"
    /\ \E ok \in BOOLEAN :
           /\ term' = IF ok THEN [term EXCEPT !.raw = FALSE] ELSE term
           /\ pc' = "exit"
           /\ last' = Did("disable_raw_mode", ok, FALSE, 0)
    /\ UNCHANGED GameVars

NextMain ==
    \/ EnableRawMode
    \/ EnterAlternateScreen
    \/ OverStep(RngKinds)
    \/ ActiveStep(RngKinds, MaxLines)
    \/ IoError
    \/ LeaveAlternateScreen
    \/ DisableRawMode

\* the whole program: main around the sessions of run_game
SpecMain == InitMain /\ [][NextMain]_vars

\* ---- properties ---------------------------------------------------------

\* the fits predicate spelled out for one cell: inside the horizontal bounds,
\* above the floor, and above row 0 or on an empty cell
CellOk(grid, x, y) ==
    /\ x >= 0
    /\ x < BOARD_W
    /\ y < BOARD_H
    /\ (y < 0 \/ grid[y][x] = None)

\* every cell of piece p shifted by (dx, dy) satisfies CellOk
PieceOk(grid, p, dx, dy) ==
    \A i \in 1..Len(p.cells) :
        CellOk(grid, p.x + p.cells[i][1] + dx, p.y + p.cells[i][2] + dy)

\* this step is the reset of the game-over loop
IsReset == pc = "over" /\ last'.op = "new"

\* C1: once game_over is set, every later command and every gravity step
\* leaves the board and the current piece unchanged until the game is reset.
C1_FrozenAfterGameOver ==
    [][(game_over /\ ~IsReset) => UNCHANGED <<board, current>>]_vars

\* C2: whenever game_over is false, every absolute cell of the current piece
\* is inside the horizontal bounds, above the floor, and above row 0 or on an
\* empty cell.
C2_CurrentPieceFits == ~game_over => PieceOk(board, current, 0, 0)

\* a rotated piece, committed on a board that already holds locked cells
C2_Witness ==
    /\ ~game_over
    /\ board # Board_new
    /\ last.op = "rotate"
    /\ last.ret
    /\ current.cells # PieceKind_cells(current.kind)

\* C3: in every reachable state level = floor(lines / 10) + 1 and level >= 1.
C3_LevelFromLines == level = lines \div 10 + 1 /\ level >= 1

\* a lock that has brought the session to level 3
C3_Witness == last.locked /\ last.cleared > 0 /\ lines >= 20 /\ level = 3

\* C4: a lock_and_advance that clears n rows adds 100*L, 300*L, 500*L or 800*L
\* for n = 1, 2, 3, 4 (0 otherwise) to the score, once, L being the level
\* before the lock, and adds n to the line count; 4 rows at level 3 add 2400.
C4_ScoreTable ==
    [][last'.locked =>
        LET n == last'.cleared
            pts == IF n = 1 THEN 100 * level
                   ELSE IF n = 2 THEN 300 * level
                   ELSE IF n = 3 THEN 500 * level
                   ELSE IF n = 4 THEN 800 * level
                   ELSE 0
        IN /\ score' = score + pts
           /\ lines' = lines + n
           /\ (n = 4 /\ level = 3 => score' = score + 2400)]_vars

\* four rows cleared in a session by a lock made at 20 lines, that is at level 3
C4_Witness == pc # "tested" /\ last.locked /\ last.cleared = 4 /\ lines = 24

\* C5: within a session the score never decreases, and it changes only in a
\* step that runs lock_and_advance.
C5_ScoreMonotone ==
    [][~IsReset => (score' >= score /\ (score' # score => last'.locked))]_vars

\* a move or rotation committed while the score is already positive
C5_Witness == score > 0 /\ last.op \in {"left", "right", "rotate"} /\ last.ret

\* C6: game_over becomes true only by a blocked spawn inside lock_and_advance,
\* and while it is true the driver accepts only retry (a fresh game) or quit:
\* nothing else changes the game state.
C6_OnlyRetryOrQuit ==
    [][/\ (~game_over /\ game_over') =>
              (last'.locked /\ ~PieceOk(board', current', 0, 0))
       /\ game_over =>
              \/ UNCHANGED GameVars
              \/ /\ IsReset
                 /\ board' = Board_new
                 /\ score' = 0
                 /\ lines' = 0
                 /\ level' = 1
                 /\ ~game_over']_vars

\* the rows of grid g in which every cell is occupied
FullRowsOf(g) == {y \in Rows : \A x \in Cols : g[y][x] # None}

\* C7: clear_lines removes exactly the full rows, returns their number k, keeps
\* every other row with its contents, moved down by the number of full rows
\* that were below it, and leaves the top k rows empty.
C7_ClearLinesCompacts ==
    last.op = "clear_lines" =>
        LET full == FullRowsOf(last.arg)
            k == Cardinality(full)
        IN /\ last.cleared = k
           /\ \A y \in Rows \ full :
                  board[y + Cardinality({z \in full : z > y})] = last.arg[y]
           /\ \A y \in 0..(k - 1) : \A x \in Cols : board[y][x] = None

\* two full rows that are not adjacent, with a partly filled row between them
C7_Witness ==
    /\ last.op = "clear_lines"
    /\ last.cleared = 2
    /\ \E y \in 1..(BOARD_H - 2) :
           /\ FullRowsOf(last.arg) = {y - 1, y + 1}
           /\ last.arg[y] # EmptyRow

\* C8: on a board without a full row clear_lines returns 0 and leaves every
\* cell, occupancy and tag, unchanged.
C8_NoFullRowUnchanged ==
    (last.op = "clear_lines" /\ FullRowsOf(last.arg) = {}) =>
        /\ last.cleared = 0
        /\ \A y \in Rows : \A x \in Cols : board[y][x] = last.arg[y][x]

\* a call on a board that holds partly filled rows with two different tags
C8_Witness ==
    /\ last.op = "clear_lines"
    /\ FullRowsOf(last.arg) = {}
    /\ \E y, z \in Rows : \E x, w \in Cols :
           /\ last.arg[y][x] # None
           /\ last.arg[z][w] # None
           /\ last.arg[y][x] # last.arg[z][w]

\* C9 as stated: with exactly one full row clear_lines returns 1, that row
\* becomes entirely empty, and the other rows keep their relative order.
C9_FullRowBecomesEmpty ==
    (last.op = "clear_lines" /\ Cardinality(FullRowsOf(last.arg)) = 1) =>
        LET f == CHOOSE y \in Rows : y \in FullRowsOf(last.arg)
        IN /\ last.cleared = 1
           /\ board[f] = EmptyRow
           /\ \A y \in Rows \ {f} :
                  board[IF y < f THEN y + 1 ELSE y] = last.arg[y]

\* C9 amended: with exactly one full row f clear_lines returns 1, the top row
\* becomes empty, the rows above f move down by one (so row f takes the
\* contents of row f - 1) and the rows below f stay where they are.
C9_RowsAboveMoveDown ==
    (last.op = "clear_lines" /\ Cardinality(FullRowsOf(last.arg)) = 1) =>
        LET f == CHOOSE y \in Rows : y \in FullRowsOf(last.arg)
        IN /\ last.cleared = 1
           /\ board[0] = EmptyRow
           /\ \A y \in Rows \ {f} :
                  board[IF y < f THEN y + 1 ELSE y] = last.arg[y]
           /\ (f > 0 => board[f] = last.arg[f - 1])

\* one full row with a partly filled row right above it
C9_Witness ==
    /\ last.op = "clear_lines"
    /\ last.cleared = 1
    /\ \E f \in 1..(BOARD_H - 1) :
           /\ FullRowsOf(last.arg) = {f}
           /\ last.arg[f - 1] # EmptyRow
           /\ board[f] = last.arg[f - 1]

\* the (dx, dy) of the try_move call a step makes
MoveDx(op) == IF op = "left" THEN -1 ELSE IF op = "right" THEN 1 ELSE 0
MoveDy(op) == IF op \in {"down", "gravity"} THEN 1 ELSE 0

\* C10: try_move(dx, dy) returns true and moves the piece to (x+dx, y+dy) iff
\* every translated cell fits; otherwise it returns false and changes nothing.
\* Kind, offsets, board, next, score, lines, level and game_over never change.
\* (A down or gravity step whose try_move fails goes on to lock_and_advance:
\* for those steps the return value alone is compared.)
C10_TryMove ==
    [][last'.op \in {"left", "right", "down", "gravity"} =>
        LET dx == MoveDx(last'.op)
            dy == MoveDy(last'.op)
            fit == PieceOk(board, current, dx, dy)
        IN /\ last'.ret = fit
           /\ fit => /\ current' = [kind |-> current.kind, cells |-> current.cells,
                                    x |-> current.x + dx, y |-> current.y + dy]
                     /\ UNCHANGED <<board, next, score, lines, level, game_over>>
           /\ (~fit /\ dy = 0) => UNCHANGED GameVars]_vars

\* a sideways move refused because of a locked cell, not because of a wall
C10_Witness ==
    /\ last.op \in {"left", "right"}
    /\ ~last.ret
    /\ \A i \in 1..Len(current.cells) :
           /\ current.x + current.cells[i][1] + MoveDx(last.op) >= 0
           /\ current.x + current.cells[i][1] + MoveDx(last.op) < BOARD_W

\* C11: for a piece that is not the square, try_rotate tries the kicks in the
\* fixed order (bar: (0,0), (-1,0), (1,0), (-2,0), (2,0), (0,-1), (0,-2);
\* others: (0,0), (-1,0), (1,0), (0,-1), (-1,-1), (1,-1)), commits the rotated
\* offsets at the position shifted by the first kick that fits and returns
\* true; if no kick fits it returns false and changes nothing.
C11_TryRotateKicks ==
    [][(last'.op = "rotate" /\ current.kind # "O") =>
        LET ks == IF current.kind = "I"
                  THEN << <<0, 0>>, <<-1, 0>>, <<1, 0>>, <<-2, 0>>, <<2, 0>>,
                          <<0, -1>>, <<0, -2>> >>
                  ELSE << <<0, 0>>, <<-1, 0>>, <<1, 0>>, <<0, -1>>, <<-1, -1>>,
                          <<1, -1>> >>
            At(k) == [kind |-> current.kind, cells |-> rotated_cw(current),
                      x |-> current.x + ks[k][1], y |-> current.y + ks[k][2]]
            fitting == {k \in 1..Len(ks) : PieceOk(board, At(k), 0, 0)}
        IN IF fitting = {}
           THEN ~last'.ret /\ UNCHANGED GameVars
           ELSE /\ last'.ret
                /\ current' = At(CHOOSE k \in fitting : \A j \in fitting : k <= j)
                /\ UNCHANGED <<board, next, score, lines, level, game_over>>]_vars

\* a piece with a three-wide frame, not drawn in the sessions, rotated by a
\* diagonal kick next to an occupied cell
C11_Witness ==
    /\ last.op = "rotate"
    /\ last.ret
    /\ current.kind \in {"S", "Z", "J", "L"}
    /\ last.arg \in {5, 6}
    /\ board # Board_new

\* the grid with the cells of the sequence cs that lie in rows >= 0 set to tag
WithCells(grid, cs, tag) ==
    [y \in Rows |-> [x \in Cols |->
        IF \E i \in 1..Len(cs) : cs[i] = <<x, y>> THEN tag ELSE grid[y][x]]]

\* C12: hard_drop locks the piece where the ghost projection computed right
\* before the call lies: the ghost is the piece moved straight down by the
\* largest number of single-row steps that each fit, the cells written are the
\* ghost cells in rows >= 0, and then lock_and_advance runs once (one lock,
\* one line clear, one spawn of the kind held as next).
C12_HardDropLandsOnGhost ==
    [][last'.op = "hard_drop" =>
        LET n == CHOOSE k \in 0..BOARD_H :
                     /\ \A j \in 1..k : PieceOk(board, current, 0, j)
                     /\ ~PieceOk(board, current, 0, k + 1)
            gh == ghost_cells(Game)
            c == clear_lines(WithCells(board, gh, PieceKind_color(current.kind)))
        IN /\ gh = Translate(current.cells, current.x, current.y + n)
           /\ (last.op = "draw" => last.arg = gh)
           /\ board' = c.grid
           /\ last'.locked
           /\ last'.cleared = c.cleared
           /\ lines' = lines + c.cleared
           /\ current' = Piece_new(next)]_vars

\* a hard drop that locked a second piece onto the board without completing
\* a row, the bottom row still having a gap
C12_Witness ==
    /\ last.op = "hard_drop"
    /\ last.cleared = 0
    /\ ~game_over
    /\ Cardinality({<<x, y>> \in Cols \X Rows : board[y][x] # None}) >= 8
    /\ \E x \in Cols : board[BOARD_H - 1][x] = None

\* C13: within a game the grid changes only in a step that runs
\* lock_and_advance (a hard drop, or a soft drop or gravity step whose move is
\* refused): the steps that call try_move or try_rotate alone, and the draw
\* that calls ghost_cells, leave every cell as it is, and the draw changes no
\* part of the game state.
C13_BoardChangedOnlyByLock ==
    [][/\ (board' # board /\ ~IsReset) => last'.locked
       /\ last'.op \in {"left", "right", "rotate", "draw"} => board' = board
       /\ (last'.op \in {"down", "gravity"} /\ last'.ret) => board' = board
       /\ last'.op = "draw" =>
              /\ last'.arg = ghost_cells(Game)
              /\ UNCHANGED GameVars]_vars

\* a sideways move or rotation refused on a board that holds locked cells,
\* the ghost of the piece lying below it
C13_Witness ==
    /\ last.op \in {"left", "right", "rotate"}
    /\ ~last.ret
    /\ board # Board_new
    /\ ghost_cells(Game) # absolute_cells(current)

\* C14: for level L >= 1 drop_interval_ms is max(1000 - 80*(L-1), 50), the
\* subtraction stopping at 0; it is never below 50, never above 1000, and no
\* lower level gives a shorter interval.
C14_DropInterval ==
    last.op = "drop_interval_ms" =>
        LET d == 80 * (level - 1)
            want == IF d >= 1000 THEN 50
                    ELSE IF 1000 - d < 50 THEN 50
                    ELSE 1000 - d
        IN /\ level >= 1
           /\ last.arg = want
           /\ last.arg >= 50
           /\ last.arg <= 1000
           /\ \A m \in 1..level :
                  drop_interval_ms([Game EXCEPT !.level = m]) >= last.arg

\* a level at which 80 * (L - 1) exceeds 1000, so that the subtraction saturates
C14_Witness ==
    /\ last.op = "drop_interval_ms"
    /\ 80 * (level - 1) > 1000
    /\ last.arg = 50

\* C15: for the square piece rotation does nothing: rotated_cw returns the
\* current offsets, so after any number of rotations the offsets are the base
\* offsets, and try_rotate returns true and leaves offsets, position and the
\* rest of the state unchanged.
C15_SquareRotationNoOp ==
    [][current.kind = "O" =>
        /\ current.cells = PieceKind_cells("O")
        /\ current'.cells = PieceKind_cells("O")
        /\ last'.op = "rotated_cw" =>
               /\ last'.arg = current.cells
               /\ rotated_cw([current EXCEPT !.cells = last'.arg]) = current.cells
        /\ last'.op = "rotate" => (last'.ret /\ UNCHANGED GameVars)]_vars

\* try_rotate called on a square that stands against the left wall, on a
\* grid that holds an occupied cell
C15_Witness ==
    /\ last.op = "rotate"
    /\ last.ret
    /\ current.kind = "O"
    /\ current.x = -1
    /\ board # Board_new

\* C16: rotated_cw maps every offset (c, r) of the bar to (3 - r, c) and every
\* offset of T, S, Z, J, L to (2 - r, c), and leaves the piece as it is; the T
\* piece in its base orientation yields exactly {(1,0), (1,1), (1,2), (2,1)}.
C16_RotatedCw ==
    [][(last'.op = "rotated_cw" /\ current.kind # "O") =>
        /\ DOMAIN last'.arg = DOMAIN current.cells
        /\ \A i \in DOMAIN current.cells :
               last'.arg[i] = <<(IF current.kind = "I" THEN 3 ELSE 2) - current.cells[i][2],
                                current.cells[i][1]>>
        /\ UNCHANGED GameVars
        /\ (current.kind = "T" /\ current.cells = PieceKind_cells("T")) =>
               {last'.arg[i] : i \in DOMAIN last'.arg}
                   = {<<1, 0>>, <<1, 1>>, <<1, 2>>, <<2, 1>>}]_vars

\* rotated_cw called on the T piece in its base orientation
C16_Witness ==
    /\ last.op = "rotated_cw"
    /\ current.kind = "T"
    /\ current.cells = PieceKind_cells("T")
    /\ Cardinality({last.arg[i] : i \in DOMAIN last.arg}) = 4
    /\ <<1, 2>> \in {last.arg[i] : i \in DOMAIN last.arg}

\* C17: after every lock_and_advance the current piece has the kind that was
\* held as next, its base offsets and the spawn position (x = (BOARD_W -
\* CELL_W) / 2, which is 3 for the width 10, and y = -1), and game_over is true
\* if and only if these cells do not fit the board left by lock and clear.
C17_SpawnFromNext ==
    [][last'.locked =>
        /\ current' = [kind |-> next, cells |-> PieceKind_cells(next),
                       x |-> (BOARD_W - CELL_W) \div 2, y |-> -1]
        /\ (10 - CELL_W) \div 2 = 3
        /\ (game_over' <=> ~PieceOk(board', current', 0, 0))]_vars

\* C18: on every exit of the program after terminal setup has begun the
\* terminal is restored: the alternate screen is left and raw mode is off.
C18_TerminalRestoredAtExit ==
    pc = "exit" => (~term.raw /\ ~term.alt)

\* C19: an iteration of the loop in the Active state applies at most one
\* command (at the input poll) and then at most one gravity step, after which
\* the next iteration starts; a gravity step and a soft drop move the piece
\* down one row if that fits and run lock_and_advance otherwise; and the
\* game-over loop is entered only from the top of an iteration, whatever the
\* command or the gravity step of the iteration before has done.
C19_OneCommandThenGravity ==
    [][/\ last'.op \in {"none", "left", "right", "down", "rotate", "hard_drop"} =>
              (pc = "input" /\ pc' = "gravity")
       /\ last'.op \in {"wait", "gravity"} => (pc = "gravity" /\ pc' = "top")
       /\ last'.op \in {"none", "wait"} => UNCHANGED GameVars
       /\ last'.op \in {"down", "gravity"} =>
              IF PieceOk(board, current, 0, 1)
              THEN /\ ~last'.locked
                   /\ current' = [current EXCEPT !.y = @ + 1]
                   /\ UNCHANGED <<board, next, score, lines, level, game_over>>
              ELSE LET c == clear_lines(WithCells(board, absolute_cells(current),
                                                  PieceKind_color(current.kind)))
                   IN /\ last'.locked
                      /\ board' = c.grid
                      /\ lines' = lines + c.cleared
                      /\ current' = Piece_new(next)
       /\ (pc' = "over" /\ pc # "over") =>
              (pc = "top" /\ game_over /\ last'.op = "draw")
       /\ (pc = "top" /\ pc' # "over") => (pc' = "input" /\ ~game_over)]_vars

\* a gravity step that locked a piece on a board holding another one and left
\* the game over; the loop is back at its top, where game_over is looked at
C19_Witness ==
    /\ last.op = "gravity"
    /\ last.locked
    /\ game_over
    /\ pc = "top"
    /\ Cardinality({<<x, y>> \in Cols \X Rows : board[y][x] # None}) >= 8

\* C20: in every state between operations no row of the board is completely
\* occupied, and every lock_and_advance clears at most 4 rows, so the branch
\* of the score table for other counts is never taken.
C20_NoFullRowAtMostFour ==
    /\ FullRowsOf(board) = {}
    /\ last.locked => last.cleared \in 0..4

\* a lock in a session that cleared four rows at once
C20_Witness ==
    /\ last.locked
    /\ last.op \in {"down", "gravity", "hard_drop"}
    /\ last.cleared = 4
    /\ lines = 4

\* C21: whenever a soft drop, a gravity step or a hard drop runs
\* lock_and_advance in the Active state (game_over false), the piece that is
\* locked is resting: its cells fit the board and the same cells one row lower
\* do not; so no piece is locked while it could still fall, and every cell the
\* lock writes was empty.
C21_LockedPieceRests ==
    [][(last'.locked /\ ~game_over) =>
        \A n \in {IF last'.op = "hard_drop"
                   THEN CHOOSE k \in 0..BOARD_H :
                            /\ \A j \in 1..k : PieceOk(board, current, 0, j)
                            /\ ~PieceOk(board, current, 0, k + 1)
                   ELSE 0} :
            \A cs \in {Translate(current.cells, current.x, current.y + n)} :
                /\ PieceOk(board, current, 0, n)
                /\ ~PieceOk(board, current, 0, n + 1)
                /\ \A i \in 1..Len(cs) :
                       cs[i][2] >= 0 => board[cs[i][2]][cs[i][1]] = None
                /\ board' = clear_lines(WithCells(board, cs,
                                                  PieceKind_color(current.kind))).grid]_vars

\* a soft drop that locked a piece resting on locked cells, not on the floor,
\* in a game that goes on
C21_Witness ==
    /\ last.op = "down"
    /\ last.locked
    /\ last.cleared = 0
    /\ ~game_over
    /\ \E x \in Cols : \E y \in 0..(BOARD_H - 3) : board[y][x] # None

====
